---- MODULE Spec2Model ----
(***************************************************************************)
(* doc-sum: the paragraph chunker split_document_into_chunks and the       *)
(* recursive resilient query groq_query of testdocsum.py, and the          *)
(* process_file pipeline of v9docsumvim.py.                                *)
(*                                                                         *)
(* ChunkSpec runs the chunker alone on every text of up to MaxRuns runs;   *)
(* QuerySpec runs groq_query, called as __main__ calls it, against a       *)
(* remote test double; V9Spec runs process_file against such a double;     *)
(* V4Spec runs the chunk loop of old_code/v4docsumvim.py (the loop of      *)
(* v3docsumvim.py is the same); WordSpec runs the word chunker chunk_text  *)
(* of docsum.py on its own.                                                *)
(*                                                                         *)
(* A Python str is held run-length encoded: a sequence of runs             *)
(* [ch |-> c, n |-> k] (k >= 1 copies of the character c) in which         *)
(* neighbouring runs carry different characters.  The characters are two   *)
(* letters, the space and the newline, so that paragraphs of 2000          *)
(* characters and the default bound of 4000 keep their real sizes.         *)
(***************************************************************************)
EXTENDS Integers, Sequences, FiniteSets, TLC

VARIABLES
    \* ---- split_document_into_chunks, run on its own ----
    text,               \* argument text
    max_chunk_size,     \* argument max_chunk_size
    cpc,                \* position in the function: "start", "loop", "done"
    cleaned_paragraphs, \* local cleaned_paragraphs
    k,                  \* number of paragraphs the for loop has consumed
    chunks,             \* local chunks
    current_chunk,      \* local current_chunk
    \* ---- groq_query and the __main__ block ----
    remote,             \* the remote summarizer (a test double of the Groq API)
    stack,              \* call stack of groq_query activations, innermost last
    status,             \* "running", "printed" or "RecursionError"
    output,             \* what __main__ printed
    issued,             \* every ChatCompletion the remote has returned so far
    waits,              \* the durations time.sleep has been called with
    \* ---- process_file of v9docsumvim.py (with text, chunks, remote,
    \*      status, output, issued and waits from above) ----
    vpc,                \* position: "start", "loop", "attempt", "final_loop",
                        \* "final_attempt"
    attempts,           \* local attempts of summarize_chunk
    calls,              \* remote calls the current summarize_chunk has made
    chunk_summaries,    \* local chunk_summaries of process_file
    final_chunks,       \* local chunks of summarize_final_chunks
    final_summaries,    \* local final_summaries of summarize_final_chunks
    \* ---- the chunk loop of old_code/v4docsumvim.py (with text, chunks,
    \*      chunk_size, remote, status, output, issued and waits) ----
    mpc,                \* position in the module: "start", "loop"
    summaries,          \* summaries
    chunk_index,        \* number of chunks the for loop has taken
    \* ---- chunk_text of docsum.py, run on its own (with text; chunks is
    \*      list(chunk_text(text, chunk_size))) ----
    chunk_size,         \* argument chunk_size
    wpc,                \* position in the generator: "start", "loop", "done"
    words,              \* local words
    offset              \* loop variable i of range(0, len(words), chunk_size)

chunkVars == <<text, max_chunk_size, cpc, cleaned_paragraphs, k, chunks, current_chunk>>
queryVars == <<remote, stack, status, output, issued, waits>>
v9Vars == <<vpc, attempts, calls, chunk_summaries, final_chunks, final_summaries>>
vars == <<text, max_chunk_size, cpc, cleaned_paragraphs, k, chunks, current_chunk,
          remote, stack, status, output, issued, waits,
          vpc, attempts, calls, chunk_summaries, final_chunks, final_summaries,
          mpc, summaries, chunk_index, chunk_size, wpc, words, offset>>
v4Vars == <<mpc, summaries, chunk_index>>
wordVars == <<chunk_size, wpc, words, offset>>

\* the chunk loop of v4docsumvim.py at rest
V4Idle ==
    /\ mpc = "idle"
    /\ summaries = <<>>
    /\ chunk_index = 0

\* chunk_text of docsum.py at rest
WordIdle ==
    /\ wpc = "idle"
    /\ words = <<>>
    /\ offset = 0

\* process_file at rest, in the runs of the other functions
V9Idle ==
    /\ vpc = "idle"
    /\ attempts = 0
    /\ calls = 0
    /\ chunk_summaries = <<>>
    /\ final_chunks = <<>>
    /\ final_summaries = <<>>

(***************************************************************************)
(* Bounds of the model                                                     *)
(***************************************************************************)
\* longest input text of the chunker, in runs
MaxRuns == 5

(***************************************************************************)
(* Strings                                                                 *)
(***************************************************************************)
Letters == {"a", "b"}
\* the characters str.strip() removes
Whitespace == {"sp", "nl"}
Chars == Letters \cup Whitespace

Run(c, n) == [ch |-> c, n |-> n]

\* run lengths of the enumerated inputs
RunLens(c) == IF c \in Letters THEN {1, 2000} ELSE IF c = "nl" THEN {1, 2} ELSE {1}
Runs == UNION {{Run(c, n) : n \in RunLens(c)} : c \in Chars}

RECURSIVE TextsOfLen(_)
TextsOfLen(n) ==
    IF n = 0 THEN {<<>>}
    ELSE {Append(p[1], p[2]) :
            p \in {q \in TextsOfLen(n - 1) \X Runs :
                     q[1] = <<>> \/ q[1][Len(q[1])].ch # q[2].ch}}

\* every string of at most n runs
Texts(n) == UNION {TextsOfLen(i) : i \in 0..n}

\* len(s)
RECURSIVE StrLen(_)
StrLen(s) == IF s = <<>> THEN 0 ELSE s[1].n + StrLen(Tail(s))

\* s + t
Concat(s, t) ==
    IF s = <<>> THEN t
    ELSE IF t = <<>> THEN s
    ELSE IF s[Len(s)].ch = t[1].ch
         THEN SubSeq(s, 1, Len(s) - 1)
              \o <<Run(t[1].ch, s[Len(s)].n + t[1].n)>>
              \o Tail(t)
         ELSE s \o t

\* sep.join(parts)
RECURSIVE Join(_, _)
Join(sep, parts) ==
    IF parts = <<>> THEN <<>>
    ELSE IF Len(parts) = 1 THEN parts[1]
    ELSE Concat(Concat(parts[1], sep), Join(sep, Tail(parts)))

\* the literals "\n\n" and " "
ParagraphSeparator == <<Run("nl", 2)>>
Space == <<Run("sp", 1)>>

\* s.strip()
RECURSIVE lstrip(_)
lstrip(s) ==
    IF s # <<>> /\ s[1].ch \in Whitespace THEN lstrip(Tail(s)) ELSE s

RECURSIVE rstrip(_)
rstrip(s) ==
    IF s # <<>> /\ s[Len(s)].ch \in Whitespace
    THEN rstrip(SubSeq(s, 1, Len(s) - 1)) ELSE s

strip(s) == rstrip(lstrip(s))

\* re.split(r'\n{2,}', s): a run of two or more newlines is a separator; the
\* pieces before the first and after the last separator are kept, empty or not
RECURSIVE re_split(_)
re_split(s) ==
    IF s = <<>> THEN << <<>> >>
    ELSE LET rest == re_split(Tail(s))
         IN  IF s[1].ch = "nl" /\ s[1].n >= 2
             THEN << <<>> >> \o rest
             ELSE << <<s[1]>> \o rest[1] >> \o Tail(rest)

(***************************************************************************)
(* split_document_into_chunks                                              *)
(***************************************************************************)
\* [para.strip() for para in paragraphs if para.strip()]
RECURSIVE CleanParagraphs(_)
CleanParagraphs(paragraphs) ==
    IF paragraphs = <<>> THEN <<>>
    ELSE LET para == strip(paragraphs[1])
         IN  (IF para # <<>> THEN <<para>> ELSE <<>>)
             \o CleanParagraphs(Tail(paragraphs))

\* a variant that forgets the test guarding chunks.append at the closing of a chunk
PackStepNoGuard(st, para, size) ==
    IF StrLen(st.current_chunk) + StrLen(para) + 2 > size
    THEN [chunks |-> Append(st.chunks, strip(st.current_chunk)),
          current_chunk |-> para]
    ELSE [chunks |-> st.chunks,
          current_chunk |->
              Concat(IF st.current_chunk # <<>>
                     THEN Concat(st.current_chunk, ParagraphSeparator)
                     ELSE st.current_chunk, para)]

\* a variant that closes a chunk only when it is already over the bound
PackStepLate(st, para, size) ==
    IF StrLen(st.current_chunk) + 2 > size
    THEN [chunks |-> IF st.current_chunk # <<>>
                     THEN Append(st.chunks, strip(st.current_chunk))
                     ELSE st.chunks,
          current_chunk |-> para]
    ELSE [chunks |-> st.chunks,
          current_chunk |->
              Concat(IF st.current_chunk # <<>>
                     THEN Concat(st.current_chunk, ParagraphSeparator)
                     ELSE st.current_chunk, para)]

\* a variant that loses the paragraph that does not fit
PackStepDrop(st, para, size) ==
    IF StrLen(st.current_chunk) + StrLen(para) + 2 > size
    THEN [chunks |-> IF st.current_chunk # <<>>
                     THEN Append(st.chunks, strip(st.current_chunk))
                     ELSE st.chunks,
          current_chunk |-> <<>>]
    ELSE [chunks |-> st.chunks,
          current_chunk |->
              Concat(IF st.current_chunk # <<>>
                     THEN Concat(st.current_chunk, ParagraphSeparator)
                     ELSE st.current_chunk, para)]

\* a variant whose overhead test is off by the separator
PackStepNoOverhead(st, para, size) ==
    IF StrLen(st.current_chunk) + StrLen(para) > size
    THEN [chunks |-> IF st.current_chunk # <<>>
                     THEN Append(st.chunks, strip(st.current_chunk))
                     ELSE st.chunks,
          current_chunk |-> para]
    ELSE [chunks |-> st.chunks,
          current_chunk |->
              Concat(IF st.current_chunk # <<>>
                     THEN Concat(st.current_chunk, ParagraphSeparator)
                     ELSE st.current_chunk, para)]

\* a variant that closes the chunk when the paragraph would fill it exactly
PackStepEager(st, para, size) ==
    IF StrLen(st.current_chunk) + StrLen(para) + 2 >= size
    THEN [chunks |-> IF st.current_chunk # <<>>
                     THEN Append(st.chunks, strip(st.current_chunk))
                     ELSE st.chunks,
          current_chunk |-> para]
    ELSE [chunks |-> st.chunks,
          current_chunk |-> Concat(IF st.current_chunk # <<>>
                                   THEN Concat(st.current_chunk, ParagraphSeparator)
                                   ELSE st.current_chunk, para)]

\* one iteration of "for para in cleaned_paragraphs" on the pair
\* st = [chunks, current_chunk]
PackStep(st, para, size) ==
    IF StrLen(st.current_chunk) + StrLen(para) + 2 > size
    THEN [chunks |-> IF st.current_chunk # <<>>
                     THEN Append(st.chunks, strip(st.current_chunk))
                     ELSE st.chunks,
          current_chunk |-> para]
    ELSE [chunks |-> st.chunks,
          current_chunk |->
              Concat(IF st.current_chunk # <<>>
                     THEN Concat(st.current_chunk, ParagraphSeparator)
                     ELSE st.current_chunk, para)]

\* a variant that appends the last chunk without looking at it
FlushAlways(st) == Append(st.chunks, strip(st.current_chunk))

\* the closing "if current_chunk: chunks.append(current_chunk.strip())"
Flush(st) ==
    IF st.current_chunk # <<>>
    THEN Append(st.chunks, strip(st.current_chunk))
    ELSE st.chunks

RECURSIVE PackFrom(_, _, _)
PackFrom(st, paras, size) ==
    IF paras = <<>> THEN st
    ELSE PackFrom(PackStep(st, paras[1], size), Tail(paras), size)

\* split_document_into_chunks(t, size), as one call
split_document_into_chunks(t, size) ==
    IF t = <<>> THEN <<>>
    ELSE Flush(PackFrom([chunks |-> <<>>, current_chunk |-> <<>>],
                        CleanParagraphs(re_split(t)), size))

(***************************************************************************)
(* The remote summarizer, chat objects and activation records              *)
(***************************************************************************)
\* def split_document_into_chunks(text, max_chunk_size=4000)
DefaultMaxChunkSize == 4000
\* def groq_query(input_text, client, delay=5)
DefaultDelay == 5

NoRemote == [mode |-> "none", limit |-> 0, summarizer |-> "none"]

(***************************************************************************)
(* split_document_into_chunks run on its own, one loop iteration at a time *)
(***************************************************************************)
\* values of max_chunk_size the chunker is run with
Sizes == {2, 5, 3000, DefaultMaxChunkSize}

ChunkInit ==
    /\ text \in Texts(MaxRuns)
    /\ max_chunk_size \in Sizes
    /\ cpc = "start"
    /\ cleaned_paragraphs = <<>>
    /\ k = 0
    /\ chunks = <<>>
    /\ current_chunk = <<>>
    /\ remote = NoRemote
    /\ stack = <<>>
    /\ status = "idle"
    /\ output = <<>>
    /\ issued = {}
    /\ waits = {}
    /\ V9Idle
    /\ V4Idle
    /\ WordIdle
    /\ chunk_size = 0

\* "if not text: return []"
ReturnEmpty ==
    /\ cpc = "start"
    /\ text = <<>>
    /\ cpc' = "done"
    /\ chunks' = <<>>
    /\ UNCHANGED <<text, max_chunk_size, cleaned_paragraphs, k, current_chunk>>
    /\ UNCHANGED <<queryVars, v9Vars, v4Vars, wordVars>>

\* re.split, the cleaning of the paragraphs and the two initialisations
SplitParagraphs ==
    /\ cpc = "start"
    /\ text # <<>>
    /\ cleaned_paragraphs' = CleanParagraphs(re_split(text))
    /\ chunks' = <<>>
    /\ current_chunk' = <<>>
    /\ k' = 0
    /\ cpc' = "loop"
    /\ UNCHANGED <<text, max_chunk_size>>
    /\ UNCHANGED <<queryVars, v9Vars, v4Vars, wordVars>>

\* one iteration of the for loop
PackParagraph ==
    /\ cpc = "loop"
    /\ k < Len(cleaned_paragraphs)
    /\ LET st == PackStep([chunks |-> chunks, current_chunk |-> current_chunk],
                          cleaned_paragraphs[k + 1], max_chunk_size)
       IN  /\ chunks' = st.chunks
           /\ current_chunk' = st.current_chunk
    /\ k' = k + 1
    /\ UNCHANGED <<text, max_chunk_size, cpc, cleaned_paragraphs>>
    /\ UNCHANGED <<queryVars, v9Vars, v4Vars, wordVars>>

\* the loop is over: the last chunk is appended and chunks returned
FlushAndReturn ==
    /\ cpc = "loop"
    /\ k = Len(cleaned_paragraphs)
    /\ chunks' = Flush([chunks |-> chunks, current_chunk |-> current_chunk])
    /\ cpc' = "done"
    /\ UNCHANGED <<text, max_chunk_size, cleaned_paragraphs, k, current_chunk>>
    /\ UNCHANGED <<queryVars, v9Vars, v4Vars, wordVars>>

ChunkNext == ReturnEmpty \/ SplitParagraphs \/ PackParagraph \/ FlushAndReturn

ChunkSpec == ChunkInit /\ [][ChunkNext]_vars

(***************************************************************************)
(* groq_query and the __main__ block                                       *)
(*                                                                         *)
(* The remote is a test double.  Its mode fixes how it answers a request:  *)
(*   "unstable"   always InternalServerError                               *)
(*   "rejecting"  always too large (RateLimitError or BadRequestError      *)
(*                whose message does not contain 'RMP')                    *)
(*   "limit"      too large when the request is longer than limit,         *)
(*                otherwise a summary                                      *)
(*   "flaky"      any of the four answers, chosen anew at each request     *)
(* Its summarizer fixes the summary it returns: "echo" returns the request,*)
(* "first" returns the first character of the request.                     *)
(***************************************************************************)
\* most nested activations of groq_query the interpreter allows before it
\* raises RecursionError (sys.getrecursionlimit(), 1000 in CPython)
RecursionLimit == 5
\* most paragraphs of a document handed to groq_query
MaxParagraphs == 2

RECURSIVE SeqsOfLen(_, _)
SeqsOfLen(S, n) ==
    IF n = 0 THEN {<<>>}
    ELSE {Append(p[1], p[2]) : p \in SeqsOfLen(S, n - 1) \X S}

\* the paragraphs documents are made of: short, long, and one with a blank
\* in front that the chunker's strip() removes
DocParagraphs ==
    { <<Run("a", 1)>>, <<Run("sp", 1), Run("b", 1)>>,
      <<Run("a", 2000)>>, <<Run("b", 2000)>> }

\* file_text: the empty file and every document of 1..MaxParagraphs paragraphs
Docs ==
    UNION {{Join(ParagraphSeparator, ps) : ps \in SeqsOfLen(DocParagraphs, n)} :
             n \in 0..MaxParagraphs}

\* the delay argument of the outermost call: the default, as __main__ calls
\* it, and one other value
Delays == {DefaultDelay, 9}

\* the size limits of the "limit" remote
Limits == {2, 2000}

Remotes ==
    {[mode |-> m, limit |-> 0, summarizer |-> z] :
        m \in {"unstable", "rejecting", "flaky"}, z \in {"echo", "first"}}
    \cup {[mode |-> "limit", limit |-> l, summarizer |-> z] :
            l \in Limits, z \in {"echo", "first"}}

\* chat_completion.choices[0].message.content for a request, by summarizer
Summarize(z, request) ==
    IF z = "echo" \/ request = <<>> THEN request
    ELSE <<Run(request[1].ch, 1)>>

\* what client.chat.completions.create may do with a request
Answers(r, request) ==
    CASE r.mode = "unstable"  -> {"InternalServerError"}
      [] r.mode = "rejecting" -> {"TooLarge"}
      [] r.mode = "limit"     -> IF StrLen(request) > r.limit
                                 THEN {"TooLarge"} ELSE {"ok"}
      [] OTHER                -> {"ok", "InternalServerError", "RMP", "TooLarge"}

\* the ChatCompletion object returned for a request
Chat(content, request) == [content |-> content, request |-> request]

\* a fresh activation of groq_query(input_text, client, delay); final_chat
\* is the empty sequence until it is assigned; error_message is str(e) of the
\* RateLimitError or BadRequestError the activation caught, reduced to
\* "RMP" (the message contains 'RMP') or "other", and "" before any
Frame(t, d) ==
    [input_text |-> t, delay |-> d, pc |-> "create",
     error_message |-> "",
     chunked_text |-> <<>>, i |-> 0, summarized_chunks |-> <<>>,
     final_chat |-> <<>>]

\* the size bound activation f passes to the chunker when it subdivides its
\* text: split_document_into_chunks(input_text) takes the default
RechunkBound(f) == DefaultMaxChunkSize

Top == stack[Len(stack)]
Below == SubSeq(stack, 1, Len(stack) - 1)
Running == status = "running" /\ stack # <<>>

\* the caller's activation becomes f and it calls groq_query(t, client), with
\* the default delay; past the interpreter's limit the call raises RecursionError
CallGroqQuery(f, t) ==
    IF Len(stack) < RecursionLimit
    THEN /\ stack' = Append(Append(Below, f), Frame(t, DefaultDelay))
         /\ status' = status
    ELSE /\ stack' = Append(Below, f)
         /\ status' = "RecursionError"

\* the outermost call, summary_chat = groq_query(file_text, groq_api) in
\* __main__, or a caller that passes a delay of its own
QueryInit ==
    /\ remote \in Remotes
    /\ \E doc \in Docs, d \in Delays : stack = <<Frame(doc, d)>>
    /\ status = "running"
    /\ output = <<>>
    /\ issued = {}
    /\ waits = {}
    /\ text = <<>>
    /\ max_chunk_size = 0
    /\ cpc = "idle"
    /\ cleaned_paragraphs = <<>>
    /\ k = 0
    /\ chunks = <<>>
    /\ current_chunk = <<>>
    /\ V9Idle
    /\ V4Idle
    /\ WordIdle
    /\ chunk_size = 0

\* the try block: the remote returns a completion
CreateOk ==
    /\ Running
    /\ Top.pc = "create"
    /\ "ok" \in Answers(remote, Top.input_text)
    /\ LET chat == Chat(Summarize(remote.summarizer, Top.input_text), Top.input_text)
       IN  /\ stack' = Append(Below, [Top EXCEPT !.final_chat = <<chat>>,
                                                 !.pc = "return"])
           /\ issued' = issued \cup {chat}
    /\ UNCHANGED <<remote, status, output, waits>>
    /\ UNCHANGED <<chunkVars, v9Vars, v4Vars, wordVars>>

\* a variant that strips the text before it asks again
InternalServerErrorStripped ==
    /\ Running
    /\ Top.pc = "create"
    /\ "InternalServerError" \in Answers(remote, Top.input_text)
    /\ waits' = waits \cup {Top.delay}
    /\ CallGroqQuery([Top EXCEPT !.pc = "retry_unstable"], strip(Top.input_text))
    /\ UNCHANGED <<remote, output, issued>>
    /\ UNCHANGED <<chunkVars, v9Vars, v4Vars, wordVars>>

\* except groq.InternalServerError: sleep, then call groq_query again
InternalServerError ==
    /\ Running
    /\ Top.pc = "create"
    /\ "InternalServerError" \in Answers(remote, Top.input_text)
    /\ waits' = waits \cup {Top.delay}
    /\ CallGroqQuery([Top EXCEPT !.pc = "retry_unstable"], Top.input_text)
    /\ UNCHANGED <<remote, output, issued>>
    /\ UNCHANGED <<chunkVars, v9Vars, v4Vars, wordVars>>

\* a variant that subdivides the text although the message contains 'RMP'
RequestsPerMinuteSplit ==
    /\ Running
    /\ Top.pc = "create"
    /\ "RMP" \in Answers(remote, Top.input_text)
    /\ stack' = Append(Below,
                  [Top EXCEPT !.chunked_text =
                                  split_document_into_chunks(Top.input_text,
                                                             RechunkBound(Top)),
                              !.error_message = "RMP",
                              !.summarized_chunks = <<>>,
                              !.i = 0,
                              !.pc = "loop"])
    /\ UNCHANGED <<remote, status, output, issued, waits>>
    /\ UNCHANGED <<chunkVars, v9Vars, v4Vars, wordVars>>

\* except (RateLimitError, BadRequestError) with 'RMP' in the message:
\* sleep, then call groq_query again
RequestsPerMinute ==
    /\ Running
    /\ Top.pc = "create"
    /\ "RMP" \in Answers(remote, Top.input_text)
    /\ waits' = waits \cup {Top.delay}
    /\ CallGroqQuery([Top EXCEPT !.pc = "retry_rmp", !.error_message = "RMP"],
                     Top.input_text)
    /\ UNCHANGED <<remote, output, issued>>
    /\ UNCHANGED <<chunkVars, v9Vars, v4Vars, wordVars>>

\* a variant that lets the exception go when the chunker cannot make the
\* text any smaller
TooLargeRaise ==
    /\ Running
    /\ Top.pc = "create"
    /\ "TooLarge" \in Answers(remote, Top.input_text)
    /\ LET parts == split_document_into_chunks(Top.input_text, RechunkBound(Top))
       IN  IF parts = <<Top.input_text>>
           THEN /\ status' = "BadRequestError"
                /\ stack' = stack
           ELSE /\ status' = status
                /\ stack' = Append(Below,
                              [Top EXCEPT !.chunked_text = parts,
                                          !.error_message = "other",
                                          !.summarized_chunks = <<>>,
                                          !.i = 0,
                                          !.pc = "loop"])
    /\ UNCHANGED <<remote, output, issued, waits>>
    /\ UNCHANGED <<chunkVars, v9Vars, v4Vars, wordVars>>

\* the same exceptions without 'RMP': split the text, start the loop
TooLarge ==
    /\ Running
    /\ Top.pc = "create"
    /\ "TooLarge" \in Answers(remote, Top.input_text)
    /\ stack' = Append(Below,
                  [Top EXCEPT !.chunked_text =
                                  split_document_into_chunks(Top.input_text,
                                                             RechunkBound(Top)),
                              !.error_message = "other",
                              !.summarized_chunks = <<>>,
                              !.i = 0,
                              !.pc = "loop"])
    /\ UNCHANGED <<remote, status, output, issued, waits>>
    /\ UNCHANGED <<chunkVars, v9Vars, v4Vars, wordVars>>

\* a variant that walks the chunk list from its end
SummarizeChunkBackwards ==
    /\ Running
    /\ Top.pc = "loop"
    /\ Top.i < Len(Top.chunked_text)
    /\ CallGroqQuery([Top EXCEPT !.pc = "chunk"],
                     Top.chunked_text[Len(Top.chunked_text) - Top.i])
    /\ UNCHANGED <<remote, output, issued, waits>>
    /\ UNCHANGED <<chunkVars, v9Vars, v4Vars, wordVars>>

\* for chunk in chunked_text: chunk_chat = groq_query(chunk, client)
SummarizeChunk ==
    /\ Running
    /\ Top.pc = "loop"
    /\ Top.i < Len(Top.chunked_text)
    /\ CallGroqQuery([Top EXCEPT !.pc = "chunk"], Top.chunked_text[Top.i + 1])
    /\ UNCHANGED <<remote, output, issued, waits>>
    /\ UNCHANGED <<chunkVars, v9Vars, v4Vars, wordVars>>

\* a variant that returns the joined summaries themselves
ReduceRaw ==
    /\ Running
    /\ Top.pc = "loop"
    /\ Top.i = Len(Top.chunked_text)
    /\ stack' = Append(Below,
                  [Top EXCEPT !.final_chat =
                                  <<Chat(Join(Space, Top.summarized_chunks), <<>>)>>,
                              !.pc = "return"])
    /\ UNCHANGED <<remote, status, output, issued, waits>>
    /\ UNCHANGED <<chunkVars, v9Vars, v4Vars, wordVars>>

\* the loop is over: join the summaries and call groq_query on the result
Reduce ==
    /\ Running
    /\ Top.pc = "loop"
    /\ Top.i = Len(Top.chunked_text)
    /\ CallGroqQuery([Top EXCEPT !.pc = "reduce"], Join(Space, Top.summarized_chunks))
    /\ UNCHANGED <<remote, output, issued, waits>>
    /\ UNCHANGED <<chunkVars, v9Vars, v4Vars, wordVars>>

\* a variant that puts the newest summary in front
ResumePrepend(caller, chat) ==
    IF caller.pc = "chunk"
    THEN [caller EXCEPT !.summarized_chunks = <<chat.content>> \o @,
                        !.i = @ + 1,
                        !.pc = "loop"]
    ELSE [caller EXCEPT !.final_chat = <<chat>>, !.pc = "return"]

\* a variant that assigns the summary list instead of appending to it
ResumeOverwrite(caller, chat) ==
    IF caller.pc = "chunk"
    THEN [caller EXCEPT !.summarized_chunks = <<chat.content>>,
                        !.i = @ + 1,
                        !.pc = "loop"]
    ELSE [caller EXCEPT !.final_chat = <<chat>>, !.pc = "return"]

\* the caller's activation after the call it waits on has returned chat
Resume(caller, chat) ==
    IF caller.pc = "chunk"
    THEN [caller EXCEPT !.summarized_chunks = Append(@, chat.content),
                        !.i = @ + 1,
                        !.pc = "loop"]
    ELSE [caller EXCEPT !.final_chat = <<chat>>, !.pc = "return"]

\* return final_chat, to an activation of groq_query
Return ==
    /\ Running
    /\ Top.pc = "return"
    /\ Len(stack) > 1
    /\ stack' = Append(SubSeq(stack, 1, Len(stack) - 2),
                       Resume(stack[Len(stack) - 1], Top.final_chat[1]))
    /\ UNCHANGED <<remote, status, output, issued, waits>>
    /\ UNCHANGED <<chunkVars, v9Vars, v4Vars, wordVars>>

\* return final_chat, to __main__, which prints its content
PrintSummary ==
    /\ Running
    /\ Top.pc = "return"
    /\ Len(stack) = 1
    /\ output' = Top.final_chat[1].content
    /\ status' = "printed"
    /\ UNCHANGED <<remote, stack, issued, waits>>
    /\ UNCHANGED <<chunkVars, v9Vars, v4Vars, wordVars>>

QueryNext ==
    \/ CreateOk
    \/ InternalServerError
    \/ RequestsPerMinute
    \/ TooLarge
    \/ SummarizeChunk
    \/ Reduce
    \/ Return
    \/ PrintSummary

QuerySpec == QueryInit /\ [][QueryNext]_vars

(***************************************************************************)
(* Properties of groq_query (checked under QuerySpec)                      *)
(***************************************************************************)
\* RETRY_LIMIT = 3, the retry count the repository configures
RETRY_LIMIT == 3

\* the text of the outermost call
Document == stack[1].input_text

\* requests that were answered InternalServerError so far
FaultedAttempts == Cardinality({j \in 1..Len(stack) : stack[j].pc = "retry_unstable"})

\* C1: with a remote that always reports InternalServerError, groq_query
\* stops after the configured number of attempts and fails explicitly; it
\* does not keep re-attempting (until the interpreter gives up).
C1_RetriesBounded ==
    remote.mode = "unstable" =>
        /\ FaultedAttempts <= RETRY_LIMIT
        /\ status # "RecursionError"

\* t holds no paragraph break and is not blank
IsSingleParagraph(t) ==
    /\ Len(re_split(t)) = 1
    /\ Len(CleanParagraphs(re_split(t))) = 1

\* C2: on a single-paragraph text that the remote rejects as too large at
\* every call, groq_query ends with an explicit failure: it does not recurse
\* without end, and does not crash.
C2_OversizeTerminates ==
    (remote.mode = "rejecting" /\ stack # <<>> /\ IsSingleParagraph(Document)) =>
        status # "RecursionError"

ParagraphsWithin(t, l) ==
    \A j \in 1..Len(CleanParagraphs(re_split(t))) :
        StrLen(CleanParagraphs(re_split(t))[j]) <= l

\* C3: with a remote that rejects every request longer than its limit and
\* accepts the others, groq_query on a document whose paragraphs are each
\* within the limit returns a summary: it never fails.
C3_SubdivisionSucceeds ==
    (remote.mode = "limit" /\ stack # <<>>
       /\ ParagraphsWithin(Document, remote.limit)) =>
        status # "RecursionError"

\* the summaries of the chunks of activation f, each at its chunk's position
ChunkSummariesInOrder(f) ==
    [n \in 1..Len(f.chunked_text) |->
        Summarize(remote.summarizer, f.chunked_text[n])]

\* C4: at every recursion depth, the text submitted for reduction is the
\* summaries of the chunks joined in the order split_document_into_chunks
\* produced the chunks, the summary of chunk n at position n.
C4_OrderPreserved ==
    \A j \in 1..Len(stack) :
        (stack[j].pc = "reduce" /\ j < Len(stack)) =>
            /\ stack[j].summarized_chunks = ChunkSummariesInOrder(stack[j])
            /\ stack[j + 1].input_text = Join(Space, ChunkSummariesInOrder(stack[j]))

\* a nested activation has submitted the summaries of two different chunks
C4_Witness ==
    \E j \in 2..Len(stack) :
        /\ stack[j].pc = "reduce"
        /\ j < Len(stack)
        /\ Len(stack[j].chunked_text) >= 2
        /\ ChunkSummariesInOrder(stack[j])[1] # ChunkSummariesInOrder(stack[j])[2]

\* C5: when the reduction call is made every chunk has contributed exactly
\* one summary, a content the remote returned; while the loop runs each chunk
\* it has passed has contributed one; a run that failed makes no reduction
\* call with a summary missing.
C5_NoChunkDropped ==
    \A j \in 1..Len(stack) :
        /\ stack[j].pc = "reduce" =>
              Len(stack[j].summarized_chunks) = Len(stack[j].chunked_text)
        /\ stack[j].pc \in {"loop", "chunk"} =>
              /\ stack[j].i <= Len(stack[j].chunked_text)
              /\ Len(stack[j].summarized_chunks) = stack[j].i
        /\ \A n \in 1..Len(stack[j].summarized_chunks) :
              \E c \in issued : c.content = stack[j].summarized_chunks[n]

\* a reduction call made for two chunks, after a run in which a chunk's own
\* query was retried
C5_Witness ==
    /\ waits # {}
    /\ \E j \in 1..Len(stack) :
          /\ stack[j].pc = "reduce"
          /\ j < Len(stack)
          /\ Len(stack[j].chunked_text) >= 2

\* t is some summaries the remote returned, joined with single spaces
IsCombinedSummaries(t) ==
    \E n \in 0..MaxParagraphs :
        \E ss \in SeqsOfLen({c.content : c \in issued}, n) : Join(Space, ss) = t

\* C6: whatever groq_query returns, at any depth, is a completion the remote
\* returned for a request that was the activation's input text or combined
\* chunk summaries, never the joined summaries themselves; and __main__ prints
\* the content of such a completion.
C6_ReturnsRemoteResponse ==
    /\ \A j \in 1..Len(stack) :
          stack[j].pc = "return" =>
              /\ stack[j].final_chat[1] \in issued
              /\ \/ stack[j].final_chat[1].request = stack[j].input_text
                 \/ IsCombinedSummaries(stack[j].final_chat[1].request)
    /\ status = "printed" => \E c \in issued : c.content = output

\* the outermost activation returns the completion of its reduction call,
\* made on the joined summaries of two chunks
C6_Witness ==
    /\ status = "printed"
    /\ Len(stack[1].chunked_text) >= 2
    /\ stack[1].final_chat[1].request = Join(Space, stack[1].summarized_chunks)
    /\ stack[1].final_chat[1].request # stack[1].input_text

(***************************************************************************)
(* The exception paths of groq_query (checked under QuerySpec)             *)
(***************************************************************************)
\* activation f has subdivided its text and is in, or past, the chunk loop
Subdivided(f) == f.chunked_text # <<>> \/ f.pc \in {"loop", "chunk", "reduce"}

\* activation j called groq_query again with the text it was given, after a
\* sleep of its delay, and did not touch the chunker
AsksAgain(j) ==
    /\ stack[j].delay \in waits
    /\ stack[j].chunked_text = <<>>
    /\ stack[j].summarized_chunks = <<>>
    /\ stack[j].i = 0
    /\ j < Len(stack) => stack[j + 1].input_text = stack[j].input_text

C11_RetryState ==
    \A j \in 1..Len(stack) : stack[j].pc = "retry_unstable" => AsksAgain(j)

\* a step in which the remote answers the newest activation's request, or in
\* which an activation that asked again gets the result of its call
C11_RetryReturn ==
    /\ (/\ stack # <<>>
        /\ Top.pc = "create"
        /\ Len(stack') = Len(stack)
        /\ stack'[Len(stack')].pc = "return") =>
           /\ stack'[Len(stack')].final_chat[1].request = Top.input_text
           /\ stack'[Len(stack')].final_chat[1] \in issued'
    /\ (/\ Len(stack) > 1
        /\ Top.pc = "return"
        /\ stack[Len(stack) - 1].pc = "retry_unstable"
        /\ stack' # stack) =>
           /\ Len(stack') = Len(stack) - 1
           /\ stack'[Len(stack')].pc = "return"
           /\ stack'[Len(stack')].final_chat = Top.final_chat

\* C11: after an InternalServerError groq_query sleeps and asks again with
\* exactly the text it was given, without calling the chunker; when the
\* remote answers after some faults in a row, every waiting activation
\* returns the completion of that successful call, which is a completion the
\* remote issued for the same text.
C11_RetrySameText == [] C11_RetryState /\ [][C11_RetryReturn]_vars

\* two faults in a row, then the third call on the same text was answered
C11_Witness ==
    /\ Len(stack) = 3
    /\ stack[1].pc = "retry_unstable"
    /\ stack[2].pc = "retry_unstable"
    /\ stack[3].pc = "return"
    /\ stack[3].error_message = ""
    /\ stack[3].final_chat[1].request = Document
    /\ stack[3].final_chat[1] \in issued
    /\ StrLen(Document) > 1
    /\ waits # {}

C12_PathState ==
    \A j \in 1..Len(stack) :
        /\ stack[j].pc = "retry_rmp" =>
               stack[j].error_message = "RMP" /\ AsksAgain(j)
        /\ stack[j].error_message = "RMP" =>
               /\ stack[j].pc \in {"retry_rmp", "return"}
               /\ ~Subdivided(stack[j])
        /\ stack[j].error_message = "other" =>
               /\ stack[j].pc \in {"loop", "chunk", "reduce", "return"}
               /\ stack[j].chunked_text =
                      split_document_into_chunks(stack[j].input_text,
                                                 RechunkBound(stack[j]))

\* the step that catches an exception without 'RMP' neither sleeps nor calls
C12_SplitStep ==
    (/\ stack # <<>>
     /\ Top.error_message = ""
     /\ Len(stack') >= Len(stack)
     /\ stack'[Len(stack)].error_message = "other") =>
        /\ waits' = waits
        /\ Len(stack') = Len(stack)

\* C12: a RateLimitError or BadRequestError whose message contains 'RMP'
\* makes groq_query sleep and ask again with the same text, and that
\* activation never subdivides; one whose message does not contain it makes
\* groq_query subdivide the text, without a sleep and without asking again.
C12_RateLimitPaths == [] C12_PathState /\ [][C12_SplitStep]_vars

\* a chunk of a subdivided text met the frequency limit and was then answered
C12_Witness ==
    /\ Len(stack) = 3
    /\ stack[1].error_message = "other"
    /\ stack[1].pc = "chunk"
    /\ stack[2].pc = "retry_rmp"
    /\ stack[3].pc = "return"
    /\ stack[3].final_chat[1].request = stack[1].chunked_text[stack[1].i + 1]

\* C13: a text that was produced by subdividing and is rejected again is
\* subdivided with a smaller size bound than the one that produced it.
C13_SmallerBound ==
    \A j \in 1..(Len(stack) - 1) :
        (stack[j].pc = "chunk" /\ Subdivided(stack[j + 1])) =>
            RechunkBound(stack[j + 1]) < RechunkBound(stack[j])

\* C14: the chunks are queried one after the other in document order: only
\* the newest activation can be at its remote call, and the activation that
\* waits on chunk i+1 has the summaries of exactly the i chunks before it.
C14_Sequential ==
    \A j \in 1..Len(stack) :
        /\ (j < Len(stack)) => stack[j].pc \in {"retry_unstable", "retry_rmp",
                                               "chunk", "reduce"}
        /\ stack[j].pc = "chunk" =>
               /\ Len(stack[j].summarized_chunks) = stack[j].i
               /\ stack[j].i < Len(stack[j].chunked_text)
               /\ j < Len(stack) =>
                      stack[j + 1].input_text = stack[j].chunked_text[stack[j].i + 1]
        /\ stack[j].pc = "loop" =>
               Len(stack[j].summarized_chunks) = stack[j].i

\* the second chunk is being queried, its own query is subdividing in turn
C14_Witness ==
    /\ Len(stack) >= 3
    /\ stack[1].pc = "chunk"
    /\ stack[1].i = 1
    /\ Len(stack[1].summarized_chunks) = 1
    /\ stack[1].chunked_text[1] # stack[1].chunked_text[2]
    /\ stack[2].input_text = stack[1].chunked_text[2]

\* C19: joined chunk summaries longer than the maximum chunk size are not
\* sent to the remote as one request.
C19_ReduceWithinBound ==
    \A j \in 1..(Len(stack) - 1) :
        (stack[j].pc = "reduce" /\ stack[j + 1].pc # "create") =>
            StrLen(stack[j + 1].input_text) <= RechunkBound(stack[j])

\* C20: for a document longer than the maximum chunk size, the first request
\* the pipeline sends carries the document's first chunk.
C20_ChunkerFirst ==
    (/\ stack # <<>>
     /\ StrLen(Document) > DefaultMaxChunkSize
     /\ stack[1].pc # "create") =>
        stack[1].input_text =
            split_document_into_chunks(Document, DefaultMaxChunkSize)[1]

(***************************************************************************)
(* Properties of split_document_into_chunks (checked under ChunkSpec)      *)
(***************************************************************************)
ChunkerDone == cpc = "done"

\* the stripped, non-empty paragraphs of the argument
SourceParagraphs == CleanParagraphs(re_split(text))

IsSourceParagraph(c) == \E j \in 1..Len(SourceParagraphs) : SourceParagraphs[j] = c

\* C7: the chunks joined with the two-newline separator are the stripped,
\* non-empty paragraphs of the text joined with the same separator, in order:
\* no paragraph is lost, duplicated, truncated or reordered.
C7_ChunkCoverage ==
    ChunkerDone =>
        Join(ParagraphSeparator, chunks) = Join(ParagraphSeparator, SourceParagraphs)

\* a run that closed one chunk and packed two paragraphs into another
C7_Witness ==
    /\ ChunkerDone
    /\ Len(chunks) >= 2
    /\ Len(SourceParagraphs) > Len(chunks)

\* C8: every chunk is at most max_chunk_size long, except a chunk that is one
\* source paragraph longer than max_chunk_size, which is emitted alone and
\* unmodified; every such paragraph is a chunk of its own.
C8_ChunkBound ==
    ChunkerDone =>
        /\ \A i \in 1..Len(chunks) :
              \/ StrLen(chunks[i]) <= max_chunk_size
              \/ IsSourceParagraph(chunks[i])
        /\ \A j \in 1..Len(SourceParagraphs) :
              StrLen(SourceParagraphs[j]) > max_chunk_size
                  => \E i \in 1..Len(chunks) : chunks[i] = SourceParagraphs[j]

\* a run that packed two paragraphs into one chunk and emitted an oversized
\* paragraph alone
C8_Witness ==
    /\ ChunkerDone
    /\ \E i \in 1..Len(chunks) : ~IsSourceParagraph(chunks[i])
    /\ \E i \in 1..Len(chunks) : StrLen(chunks[i]) > max_chunk_size

IsBlank(s) == \A i \in 1..Len(s) : s[i].ch \in Whitespace

\* C9: no returned chunk is empty or whitespace-only, also when the first
\* paragraph alone exceeds max_chunk_size; an empty or all-whitespace text
\* yields the empty sequence.
C9_NoEmptyChunk ==
    ChunkerDone =>
        /\ \A i \in 1..Len(chunks) : ~IsBlank(chunks[i])
        /\ IsBlank(text) => chunks = <<>>

\* the first paragraph alone exceeds the bound, and the text has blank
\* pieces around it
C9_Witness ==
    /\ ChunkerDone
    /\ Len(SourceParagraphs) >= 2
    /\ StrLen(SourceParagraphs[1]) > max_chunk_size
    /\ text[1].ch \in Whitespace
    /\ Len(chunks) = Len(SourceParagraphs)

ThreeParagraphsOf2000 ==
    /\ Len(SourceParagraphs) = 3
    /\ \A j \in 1..3 : StrLen(SourceParagraphs[j]) = 2000

\* C10 as stated: three paragraphs of 2000 characters and max_chunk_size =
\* 3000 give exactly 2 chunks, paragraph 1 alone and paragraphs 2 and 3 packed.
C10_TwoChunks ==
    (ChunkerDone /\ ThreeParagraphsOf2000 /\ max_chunk_size = 3000) =>
        /\ Len(chunks) = 2
        /\ chunks[1] = SourceParagraphs[1]
        /\ chunks[2] = Join(ParagraphSeparator,
                            <<SourceParagraphs[2], SourceParagraphs[3]>>)

\* C10 amended: three paragraphs of 2000 characters and max_chunk_size = 3000
\* give exactly 3 chunks, one per paragraph, in order.
C10_ThreeChunks ==
    (ChunkerDone /\ ThreeParagraphsOf2000 /\ max_chunk_size = 3000) =>
        chunks = SourceParagraphs

\* the chunker has returned for such a document and bound
C10_Witness ==
    /\ ChunkerDone
    /\ ThreeParagraphsOf2000
    /\ max_chunk_size = 3000
    /\ Len(chunks) = 3


(***************************************************************************)
(* What max_chunk_size measures, and when a chunk is closed (ChunkSpec)    *)
(***************************************************************************)
\* the number of whitespace-delimited words of s, len(s.split())
WordCount(s) ==
    Cardinality({j \in 1..Len(s) :
                    /\ s[j].ch \notin Whitespace
                    /\ (j = 1 \/ s[j - 1].ch \in Whitespace)})

\* the first paragraph of a chunk
FirstParagraph(c) == re_split(c)[1]

\* C15: a text longer than max_chunk_size that has no paragraph break comes
\* back as more than one chunk.
C15_LongParagraphSplit ==
    (/\ ChunkerDone
     /\ IsSingleParagraph(text)
     /\ StrLen(text) > max_chunk_size) =>
        Len(chunks) > 1

\* C16: max_chunk_size is a number of words: no packed chunk has more words,
\* and a chunk is closed only when the next paragraph's words would take it
\* past max_chunk_size words.
C16_WordBound ==
    ChunkerDone =>
        /\ \A j \in 1..Len(chunks) :
               IsSourceParagraph(chunks[j]) \/ WordCount(chunks[j]) <= max_chunk_size
        /\ \A j \in 1..(Len(chunks) - 1) :
               WordCount(chunks[j]) + WordCount(FirstParagraph(chunks[j + 1]))
                   > max_chunk_size

C18_ClosedOnlyWhenFull ==
    ChunkerDone =>
        \A j \in 1..(Len(chunks) - 1) :
            StrLen(chunks[j]) + 2 + StrLen(FirstParagraph(chunks[j + 1]))
                > max_chunk_size

\* an iteration of the loop whose paragraph fits appends it to current_chunk
C18_AppendWhenFits ==
    (/\ cpc = "loop"
     /\ k' = k + 1
     /\ StrLen(current_chunk) + StrLen(cleaned_paragraphs[k + 1]) + 2
            <= max_chunk_size) =>
        /\ chunks' = chunks
        /\ current_chunk' =
               Concat(IF current_chunk # <<>>
                      THEN Concat(current_chunk, ParagraphSeparator)
                      ELSE current_chunk,
                      cleaned_paragraphs[k + 1])

\* C18: packing is greedy: for two consecutive chunks c and c',
\* len(c) + 2 + len(first paragraph of c') > max_chunk_size, and a paragraph
\* is appended to the current chunk whenever
\* len(current) + len(paragraph) + 2 <= max_chunk_size.
C18_GreedyPacking == [] C18_ClosedOnlyWhenFull /\ [][C18_AppendWhenFits]_vars

\* a chunk of two paragraphs that fit, closed before a paragraph that did not
C18_Witness ==
    /\ ChunkerDone
    /\ Len(chunks) >= 2
    /\ Len(re_split(chunks[1])) = 2
    /\ StrLen(chunks[1]) <= max_chunk_size
    /\ StrLen(chunks[1]) + 2 + StrLen(FirstParagraph(chunks[2])) > max_chunk_size


(***************************************************************************)
(* process_file of v9docsumvim.py                                          *)
(*                                                                         *)
(* The text is cut into slices of CHUNK_SIZE characters, every slice is    *)
(* summarized by summarize_chunk, the summaries are joined, cut into       *)
(* slices of FINAL_SUMMARY_CHUNK_SIZE characters and summarized again, and *)
(* the join of those summaries is printed.  output holds the final         *)
(* summary that was printed; the progress lines are left out.              *)
(***************************************************************************)
CHUNK_SIZE == 3500
RETRY_DELAY == 5
FINAL_SUMMARY_CHUNK_SIZE == 2000

\* longest file text process_file is run on, in runs
MaxDocRuns == 2

\* s[:n]
RECURSIVE Take(_, _)
Take(s, n) ==
    IF n = 0 \/ s = <<>> THEN <<>>
    ELSE IF s[1].n <= n THEN <<s[1]>> \o Take(Tail(s), n - s[1].n)
    ELSE <<Run(s[1].ch, n)>>

\* s[n:]
RECURSIVE Drop(_, _)
Drop(s, n) ==
    IF n = 0 \/ s = <<>> THEN s
    ELSE IF s[1].n <= n THEN Drop(Tail(s), n - s[1].n)
    ELSE <<Run(s[1].ch, s[1].n - n)>> \o Tail(s)

\* [text[i:i + chunk_size] for i in range(0, len(text), chunk_size)]
RECURSIVE chunk_text(_, _)
chunk_text(t, size) ==
    IF t = <<>> THEN <<>>
    ELSE <<Take(t, size)>> \o chunk_text(Drop(t, size), size)

\* the remote of process_file: it fails every call, or does as it likes
V9Remotes ==
    {[mode |-> m, limit |-> 0, summarizer |-> z] :
        m \in {"unstable", "flaky"}, z \in {"echo", "first"}}

\* what client.chat.completions.create may do, by the exception it raises
V9Answers(r) ==
    IF r.mode = "unstable" THEN {"InternalServerError"}
    ELSE {"ok", "InternalServerError", "BadRequestError", "RateLimitError"}

\* process_file(args.filename) has read the file
V9Init ==
    /\ text \in Texts(MaxDocRuns)
    /\ remote \in V9Remotes
    /\ vpc = "start"
    /\ status = "running"
    /\ chunks = <<>>
    /\ attempts = 0
    /\ calls = 0
    /\ chunk_summaries = <<>>
    /\ final_chunks = <<>>
    /\ final_summaries = <<>>
    /\ output = <<>>
    /\ issued = {}
    /\ waits = {}
    /\ max_chunk_size = 0
    /\ cpc = "idle"
    /\ cleaned_paragraphs = <<>>
    /\ k = 0
    /\ current_chunk = <<>>
    /\ stack = <<>>
    /\ V4Idle
    /\ WordIdle
    /\ chunk_size = 0

\* the variables process_file never touches
v9Rest == <<text, remote, max_chunk_size, cpc, cleaned_paragraphs, k,
            current_chunk, stack, v4Vars, wordVars>>

InFinal == vpc \in {"final_loop", "final_attempt"}

\* the list the running for loop walks, and the list it appends to
LoopChunks == IF InFinal THEN final_chunks ELSE chunks
LoopSummaries == IF InFinal THEN final_summaries ELSE chunk_summaries

\* the argument of the running summarize_chunk
Chunk == LoopChunks[Len(LoopSummaries) + 1]

\* chunks = chunk_text(text, CHUNK_SIZE); chunk_summaries = []
ProcessFile ==
    /\ status = "running"
    /\ vpc = "start"
    /\ chunks' = chunk_text(text, CHUNK_SIZE)
    /\ chunk_summaries' = <<>>
    /\ vpc' = "loop"
    /\ UNCHANGED <<attempts, calls, final_chunks, final_summaries,
                   status, output, issued, waits>>
    /\ UNCHANGED v9Rest

\* a variant whose attempt counter belongs to the module, not to the call
EnterSummarizeChunkKeep ==
    /\ status = "running"
    /\ vpc \in {"loop", "final_loop"}
    /\ Len(LoopSummaries) < Len(LoopChunks)
    /\ calls' = 0
    /\ vpc' = IF InFinal THEN "final_attempt" ELSE "attempt"
    /\ UNCHANGED <<attempts, chunks, chunk_summaries, final_chunks, final_summaries,
                   status, output, issued, waits>>
    /\ UNCHANGED v9Rest

\* for chunk in chunks: summarize_chunk(chunk) is called; attempts = 0
EnterSummarizeChunk ==
    /\ status = "running"
    /\ vpc \in {"loop", "final_loop"}
    /\ Len(LoopSummaries) < Len(LoopChunks)
    /\ attempts' = 0
    /\ calls' = 0
    /\ vpc' = IF InFinal THEN "final_attempt" ELSE "attempt"
    /\ UNCHANGED <<chunks, chunk_summaries, final_chunks, final_summaries,
                   status, output, issued, waits>>
    /\ UNCHANGED v9Rest

\* while attempts < RETRY_LIMIT: the call succeeds, summarize_chunk returns
\* the content and the caller appends it to its list
AttemptOk ==
    /\ status = "running"
    /\ vpc \in {"attempt", "final_attempt"}
    /\ attempts < RETRY_LIMIT
    /\ "ok" \in V9Answers(remote)
    /\ calls' = calls + 1
    /\ LET chat == Chat(Summarize(remote.summarizer, Chunk), Chunk)
       IN  /\ issued' = issued \cup {chat}
           /\ IF InFinal
              THEN /\ final_summaries' = Append(final_summaries, chat.content)
                   /\ chunk_summaries' = chunk_summaries
              ELSE /\ chunk_summaries' = Append(chunk_summaries, chat.content)
                   /\ final_summaries' = final_summaries
    /\ vpc' = IF InFinal THEN "final_loop" ELSE "loop"
    /\ UNCHANGED <<attempts, chunks, final_chunks, status, output, waits>>
    /\ UNCHANGED v9Rest

\* except (InternalServerError, BadRequestError): attempts += 1, sleep
AttemptFails ==
    /\ status = "running"
    /\ vpc \in {"attempt", "final_attempt"}
    /\ attempts < RETRY_LIMIT
    /\ V9Answers(remote) \cap {"InternalServerError", "BadRequestError"} # {}
    /\ calls' = calls + 1
    /\ attempts' = attempts + 1
    /\ waits' = waits \cup {RETRY_DELAY}
    /\ UNCHANGED <<vpc, chunks, chunk_summaries, final_chunks, final_summaries,
                   status, output, issued>>
    /\ UNCHANGED v9Rest

\* any other exception of the call is not caught and ends the program
AttemptUncaught ==
    /\ status = "running"
    /\ vpc \in {"attempt", "final_attempt"}
    /\ attempts < RETRY_LIMIT
    /\ "RateLimitError" \in V9Answers(remote)
    /\ calls' = calls + 1
    /\ status' = "RateLimitError"
    /\ UNCHANGED <<vpc, attempts, chunks, chunk_summaries, final_chunks,
                   final_summaries, output, issued, waits>>
    /\ UNCHANGED v9Rest

\* the while loop is over: raise Exception("Failed to get a response ...")
RaiseAfterRetries ==
    /\ status = "running"
    /\ vpc \in {"attempt", "final_attempt"}
    /\ attempts >= RETRY_LIMIT
    /\ status' = "Exception"
    /\ UNCHANGED <<vpc, attempts, calls, chunks, chunk_summaries, final_chunks,
                   final_summaries, output, issued, waits>>
    /\ UNCHANGED v9Rest

\* summarize_final_chunks(chunk_summaries) up to its for loop
SummarizeFinalChunks ==
    /\ status = "running"
    /\ vpc = "loop"
    /\ Len(chunk_summaries) = Len(chunks)
    /\ final_chunks' = chunk_text(Join(Space, chunk_summaries),
                                  FINAL_SUMMARY_CHUNK_SIZE)
    /\ final_summaries' = <<>>
    /\ vpc' = "final_loop"
    /\ UNCHANGED <<attempts, calls, chunks, chunk_summaries,
                   status, output, issued, waits>>
    /\ UNCHANGED v9Rest

\* return " ".join(final_summaries); print(final_summary.strip())
PrintFinalSummary ==
    /\ status = "running"
    /\ vpc = "final_loop"
    /\ Len(final_summaries) = Len(final_chunks)
    /\ output' = strip(Join(Space, final_summaries))
    /\ status' = "printed"
    /\ UNCHANGED <<vpc, attempts, calls, chunks, chunk_summaries, final_chunks,
                   final_summaries, issued, waits>>
    /\ UNCHANGED v9Rest

V9Next ==
    \/ ProcessFile
    \/ EnterSummarizeChunk
    \/ AttemptOk
    \/ AttemptFails
    \/ AttemptUncaught
    \/ RaiseAfterRetries
    \/ SummarizeFinalChunks
    \/ PrintFinalSummary

V9Spec == V9Init /\ [][V9Next]_vars

(***************************************************************************)
(* Properties of summarize_chunk (checked under V9Spec)                    *)
(***************************************************************************)
InSummarizeChunk == vpc \in {"attempt", "final_attempt"}

\* calls made so far by the running or the last summarize_chunk: every one
\* of them failed while the function runs, the last one succeeded after it
C17_CallCount ==
    /\ calls <= RETRY_LIMIT
    /\ attempts <= RETRY_LIMIT
    /\ (InSummarizeChunk /\ status # "RateLimitError") => calls = attempts
    /\ (vpc \in {"loop", "final_loop"} /\ LoopSummaries # <<>>) =>
           /\ calls = attempts + 1
           /\ LoopSummaries[Len(LoopSummaries)] =
                  Summarize(remote.summarizer, LoopChunks[Len(LoopSummaries)])
    /\ status = "Exception" =>
           /\ InSummarizeChunk
           /\ attempts = RETRY_LIMIT
           /\ calls = RETRY_LIMIT

C17_CallSteps ==
    /\ (~InSummarizeChunk /\ InSummarizeChunk') => (attempts' = 0 /\ calls' = 0)
    /\ (InSummarizeChunk /\ attempts = RETRY_LIMIT) =>
           (status' = "Exception" /\ calls' = calls)
    /\ (InSummarizeChunk /\ ~InSummarizeChunk') =>
           /\ calls' = calls + 1
           /\ LoopSummaries' = Append(LoopSummaries,
                                      Summarize(remote.summarizer, Chunk))
    /\ (~InSummarizeChunk /\ ~InSummarizeChunk') => calls' = calls

\* C17: summarize_chunk makes at most RETRY_LIMIT remote calls for a chunk;
\* when every call fails with InternalServerError or BadRequestError it
\* raises its exception after exactly RETRY_LIMIT attempts; when a call
\* succeeds it returns that call's summary and makes no further call; the
\* attempt counter is zero at the start of every chunk.
C17_BoundedAttempts == [] C17_CallCount /\ [][C17_CallSteps]_vars

\* the retries ran out on a later chunk, after an earlier chunk was
\* summarized on its last attempt
C17_Witness ==
    /\ status = "Exception"
    /\ vpc = "attempt"
    /\ Len(chunk_summaries) = 1
    /\ calls = RETRY_LIMIT
    /\ RETRY_DELAY \in waits


(***************************************************************************)
(* Properties of process_file (checked under V9Spec)                       *)
(***************************************************************************)
\* C21: what process_file prints is the content of one completion, the one
\* the remote issued for the joined chunk summaries; it is never several
\* summaries put together.
C21_SingleFinalCall ==
    (status = "printed" /\ chunks # <<>>) =>
        \E chat \in issued :
            /\ chat.request = Join(Space, chunk_summaries)
            /\ output = strip(chat.content)

\* every chunk of both loops has its summary, in order
AllSummarized ==
    /\ Len(chunk_summaries) = Len(chunks)
    /\ \A j \in 1..Len(chunks) :
           chunk_summaries[j] = Summarize(remote.summarizer, chunks[j])
    /\ Len(final_summaries) = Len(final_chunks)
    /\ \A j \in 1..Len(final_chunks) :
           final_summaries[j] = Summarize(remote.summarizer, final_chunks[j])

\* C22: process_file prints one final summary, after every chunk of both
\* loops has yielded its summary, or it ends with the exception
\* summarize_chunk raises when its attempts are used up, and then nothing
\* was printed.
C22_PrintOrExhaust ==
    /\ status \in {"running", "printed", "Exception"}
    /\ status = "printed" => AllSummarized
    /\ status # "printed" => output = <<>>
    /\ status = "Exception" => attempts = RETRY_LIMIT


(***************************************************************************)
(* The chunk loop of old_code/v4docsumvim.py                               *)
(*                                                                         *)
(* The module cuts the text into slices of chunk_size = 3500 characters,   *)
(* asks the remote for a summary of each and prints the summaries joined   *)
(* with spaces.  old_code/v3docsumvim.py runs the same loop over the       *)
(* chunks of its word chunker.                                             *)
(***************************************************************************)
\* text = extract_text_with_retries(args.filename) has returned
V4Init ==
    /\ text \in Texts(MaxDocRuns)
    /\ remote \in V9Remotes
    /\ mpc = "start"
    /\ status = "running"
    /\ chunk_size = 0
    /\ chunks = <<>>
    /\ summaries = <<>>
    /\ chunk_index = 0
    /\ output = <<>>
    /\ issued = {}
    /\ waits = {}
    /\ max_chunk_size = 0
    /\ cpc = "idle"
    /\ cleaned_paragraphs = <<>>
    /\ k = 0
    /\ current_chunk = <<>>
    /\ stack = <<>>
    /\ V9Idle
    /\ WordIdle

\* the variables the module never touches
v4Rest == <<text, remote, max_chunk_size, cpc, cleaned_paragraphs, k,
            current_chunk, stack, v9Vars, wpc, words, offset>>

\* if not text: raise ValueError(...)
NoText ==
    /\ status = "running"
    /\ mpc = "start"
    /\ text = <<>>
    /\ status' = "ValueError"
    /\ UNCHANGED <<mpc, chunk_size, chunks, summaries, chunk_index,
                   output, issued, waits>>
    /\ UNCHANGED v4Rest

\* chunk_size = 3500; summaries = []; chunks = chunk_text(text, chunk_size)
ChunkTheText ==
    /\ status = "running"
    /\ mpc = "start"
    /\ text # <<>>
    /\ chunk_size' = 3500
    /\ summaries' = <<>>
    /\ chunks' = chunk_text(text, 3500)
    /\ chunk_index' = 0
    /\ mpc' = "loop"
    /\ UNCHANGED <<status, output, issued, waits>>
    /\ UNCHANGED v4Rest

\* the try block: the remote answers, the summary is appended
ChunkOk ==
    /\ status = "running"
    /\ mpc = "loop"
    /\ chunk_index < Len(chunks)
    /\ "ok" \in V9Answers(remote)
    /\ LET chat == Chat(Summarize(remote.summarizer, chunks[chunk_index + 1]),
                        chunks[chunk_index + 1])
       IN  /\ summaries' = Append(summaries, chat.content)
           /\ issued' = issued \cup {chat}
    /\ chunk_index' = chunk_index + 1
    /\ UNCHANGED <<mpc, chunk_size, chunks, status, output, waits>>
    /\ UNCHANGED v4Rest

\* except groq.RateLimitError: print, time.sleep(120), continue
ChunkRateLimited ==
    /\ status = "running"
    /\ mpc = "loop"
    /\ chunk_index < Len(chunks)
    /\ "RateLimitError" \in V9Answers(remote)
    /\ waits' = waits \cup {120}
    /\ chunk_index' = chunk_index + 1
    /\ UNCHANGED <<mpc, chunk_size, chunks, summaries, status, output, issued>>
    /\ UNCHANGED v4Rest

\* an exception of another type is not caught and ends the program
ChunkUncaught ==
    /\ status = "running"
    /\ mpc = "loop"
    /\ chunk_index < Len(chunks)
    /\ \E e \in V9Answers(remote) \cap {"InternalServerError", "BadRequestError"} :
           status' = e
    /\ UNCHANGED <<mpc, chunk_size, chunks, summaries, chunk_index,
                   output, issued, waits>>
    /\ UNCHANGED v4Rest

\* final_summary = " ".join(summaries); print(final_summary)
PrintJoined ==
    /\ status = "running"
    /\ mpc = "loop"
    /\ chunk_index = Len(chunks)
    /\ output' = Join(Space, summaries)
    /\ status' = "printed"
    /\ UNCHANGED <<mpc, chunk_size, chunks, summaries, chunk_index, issued, waits>>
    /\ UNCHANGED v4Rest

V4Next ==
    \/ NoText
    \/ ChunkTheText
    \/ ChunkOk
    \/ ChunkRateLimited
    \/ ChunkUncaught
    \/ PrintJoined

V4Spec == V4Init /\ [][V4Next]_vars

RECURSIVE SplitFrom(_, _, _)
SplitFrom(s, acc, cur) ==
    IF s = <<>> THEN (IF cur # <<>> THEN Append(acc, cur) ELSE acc)
    ELSE IF s[1].ch \in Whitespace
         THEN SplitFrom(Tail(s), IF cur # <<>> THEN Append(acc, cur) ELSE acc, <<>>)
         ELSE SplitFrom(Tail(s), acc, Append(cur, s[1]))

split(s) == SplitFrom(s, <<>>, <<>>)

\* words[i:j]
Slice(ws, i, j) == SubSeq(ws, i + 1, IF j < Len(ws) THEN j ELSE Len(ws))

\* values of chunk_size the word chunker is run with
WordSizes == {1, 2, 3}

WordInit ==
    /\ text \in Texts(MaxRuns)
    /\ chunk_size \in WordSizes
    /\ wpc = "start"
    /\ words = <<>>
    /\ offset = 0
    /\ chunks = <<>>
    /\ max_chunk_size = 0
    /\ cpc = "idle"
    /\ cleaned_paragraphs = <<>>
    /\ k = 0
    /\ current_chunk = <<>>
    /\ remote = NoRemote
    /\ stack = <<>>
    /\ status = "idle"
    /\ output = <<>>
    /\ issued = {}
    /\ waits = {}
    /\ V9Idle
    /\ V4Idle

\* the variables chunk_text never touches
wordRest == <<text, chunk_size, max_chunk_size, cpc, cleaned_paragraphs, k,
              current_chunk, queryVars, v9Vars, v4Vars>>

\* words = text.split()
SplitText ==
    /\ wpc = "start"
    /\ words' = split(text)
    /\ offset' = 0
    /\ wpc' = "loop"
    /\ UNCHANGED chunks
    /\ UNCHANGED wordRest

\* a variant whose slices are one word short
YieldChunkShort ==
    /\ wpc = "loop"
    /\ offset < Len(words)
    /\ chunks' = Append(chunks,
                        Join(Space, Slice(words, offset, offset + chunk_size - 1)))
    /\ offset' = offset + chunk_size
    /\ UNCHANGED <<wpc, words>>
    /\ UNCHANGED wordRest

\* yield " ".join(words[i:i + chunk_size]), taken by list(...)
YieldChunk ==
    /\ wpc = "loop"
    /\ offset < Len(words)
    /\ chunks' = Append(chunks,
                        Join(Space, Slice(words, offset, offset + chunk_size)))
    /\ offset' = offset + chunk_size
    /\ UNCHANGED <<wpc, words>>
    /\ UNCHANGED wordRest

\* the range is used up: the generator ends
EndOfWords ==
    /\ wpc = "loop"
    /\ offset >= Len(words)
    /\ wpc' = "done"
    /\ UNCHANGED <<words, offset, chunks>>
    /\ UNCHANGED wordRest

WordNext == SplitText \/ YieldChunk \/ EndOfWords

WordSpec == WordInit /\ [][WordNext]_vars

\* C24: the chunks of the word chunker are in document order, each has
\* between 1 and chunk_size words, each but the last has exactly chunk_size
\* words, and joined with single spaces they are the words of the text
\* joined with single spaces; a text without a word gives no chunk.
C24_WordChunks ==
    wpc = "done" =>
        /\ \A j \in 1..Len(chunks) :
               /\ WordCount(chunks[j]) >= 1
               /\ WordCount(chunks[j]) <= chunk_size
               /\ j < Len(chunks) => WordCount(chunks[j]) = chunk_size
        /\ Join(Space, chunks) = Join(Space, split(text))
        /\ WordCount(text) = 0 => chunks = <<>>

\* three words, separated by more than single spaces, in two chunks
C24_Witness ==
    /\ wpc = "done"
    /\ chunk_size = 2
    /\ Len(chunks) = 2
    /\ WordCount(chunks[1]) = 2
    /\ WordCount(chunks[2]) = 1
    /\ Join(Space, chunks) # text


(***************************************************************************)
(* Re-chunking, and the chunker of v2testdocsum.py (checked under          *)
(* ChunkSpec)                                                              *)
(***************************************************************************)
\* C25: the chunker applied to one of its own chunks, with the same bound,
\* returns that chunk alone; so a chunk made with the default bound that the
\* remote rejects is re-chunked by groq_query to exactly itself.
C25_RechunkFixpoint ==
    ChunkerDone =>
        \A j \in 1..Len(chunks) :
            split_document_into_chunks(chunks[j], max_chunk_size) = <<chunks[j]>>

\* a text that the default bound splits in two, its first chunk re-chunked
C25_Witness ==
    /\ ChunkerDone
    /\ max_chunk_size = DefaultMaxChunkSize
    /\ Len(chunks) = 2
    /\ chunks[1] # text
    /\ split_document_into_chunks(chunks[1], DefaultMaxChunkSize) = <<chunks[1]>>


\* the chunker of v2testdocsum.py: current_chunk is a list of paragraphs
SumLen(paras) == StrLen(Join(<<>>, paras))

PackStepBySize(st, para, size) ==
    IF SumLen(st.current_chunk) + StrLen(para) + Len(st.current_chunk) * 2 > size
    THEN [chunks |-> Append(st.chunks,
                            strip(Join(ParagraphSeparator, st.current_chunk))),
          current_chunk |-> <<para>>]
    ELSE [chunks |-> st.chunks,
          current_chunk |-> Append(st.current_chunk, para)]

RECURSIVE PackFromBySize(_, _, _)
PackFromBySize(st, paras, size) ==
    IF paras = <<>>
    THEN IF st.current_chunk # <<>>
         THEN Append(st.chunks, strip(Join(ParagraphSeparator, st.current_chunk)))
         ELSE st.chunks
    ELSE PackFromBySize(PackStepBySize(st, Head(paras), size), Tail(paras), size)

chunk_text_by_size(t, size) ==
    IF t = <<>> THEN <<>>
    ELSE PackFromBySize([chunks |-> <<>>, current_chunk |-> <<>>],
                        CleanParagraphs(re_split(t)), size)

\* C27: chunk_text_by_size of v2testdocsum.py returns the chunks that
\* split_document_into_chunks of testdocsum.py returns, for every text and
\* every max_chunk_size.
C27_ChunkersAgree ==
    ChunkerDone => chunks = chunk_text_by_size(text, max_chunk_size)

(***************************************************************************)
(* The delay and the exceptions of groq_query (checked under QuerySpec)    *)
(***************************************************************************)
\* C26: every sleep made during groq_query(text, client, delay=d), in its
\* re-attempts and in its calls on chunks as well, lasts d seconds.
C26_DelayCarried == stack # <<>> => waits \subseteq {stack[1].delay}

\* C28: no InternalServerError, RateLimitError or BadRequestError of the
\* remote leaves groq_query: the program runs, has printed, or was stopped
\* by the interpreter's recursion limit, and an activation that returns, at
\* any depth, returns a completion the remote issued.
C28_NoErrorEscapes ==
    /\ status \in {"running", "printed", "RecursionError"}
    /\ status = "RecursionError" => Len(stack) = RecursionLimit
    /\ \A j \in 1..Len(stack) :
           stack[j].pc = "return" =>
               /\ stack[j].final_chat # <<>>
               /\ stack[j].final_chat[1] \in issued
    /\ status = "printed" => \E chat \in issued : output = chat.content

\* a run that met a fault answered by a wait and a rejection answered by
\* subdividing, below the outermost call as well, and printed its summary
C28_Witness ==
    /\ status = "printed"
    /\ remote.mode = "flaky"
    /\ stack[1].error_message = "other"
    /\ Len(stack[1].chunked_text) = 2
    /\ waits # {}
    /\ output = stack[1].final_chat[1].content

====
